---- MODULE Spec2Model ----
(***************************************************************************)
(* Model of images.SoftwareImagesStorage (src/images/storage_images.go):   *)
(* the MongoDB-backed data layer for SoftwareImage records.                *)
(*                                                                         *)
(* Callers (Procs) invoke the storage's operations concurrently.  Every    *)
(* operation is modelled by its steps on shared state:                     *)
(*   entry   the input guard and session.Copy()                            *)
(*   Db...   the single database call the operation issues                 *)
(*   Return  the deferred session.Close() and the return to the caller     *)
(* The collection, its indexes and the pool of session copies are the      *)
(* shared state; the engine itself holds none between calls.               *)
(***************************************************************************)
EXTENDS Integers, FiniteSets

\* ---------------------------------------------------------------- bounds

\* Last instant of the wall clock read by time.Now().
MaxTime == 2

\* Concurrent callers of the storage.
Procs == {"p1", "p2"}

\* Identifiers images carry, and the strings callers pass as ids.
Ids == {"a", "b"}
IdArgs == Ids \cup {""}

\* Natural-key components; "" is the empty (null) string.
Names == {"n1", "n2"}
Models == {"m1"}
NameArgs == Names \cup {""}
ModelArgs == Models \cup {""}

\* ------------------------------------------------------------- constants

StorageKeySoftwareImageModel == "softwareimageconstructor.model"
StorageKeySoftwareImageName == "softwareimageconstructor.name"
StorageKeySoftwareImageId == "_id"
IndexUniqeNameVersionStr == "uniqueNameVersionIndex"

ErrStorageInvalidID == "Invalid id"
ErrStorageInvalidVersion == "Invalid version"
ErrStorageInvalidModel == "Invalid model"
ErrStorageInvalidImage == "Invalid image"

\* Errors of the collaborators: the entity's Validate, the driver, the runtime.
ErrValidation == "validation failed"
ErrNotFound == "not found"
ErrDuplicateKey == "duplicate key"
ErrInfrastructure == "database failure"
Panic == "panic: nil pointer dereference"
Nil == "nil"

\* ----------------------------------------------------------------- state

VARIABLES
    store,      \* documents of collection "images"
    indexes,    \* index definitions of the collection
    open,       \* session copies that are open
    now,        \* wall clock
    call        \* per caller: the operation in progress

vars == <<store, indexes, open, now, call>>

\* A *SoftwareImage held by a caller.  NilId: the Id pointer is nil.
NilId == "<nil>"
NilImage == [isNil |-> TRUE, id |-> NilId, name |-> "", model |-> "", modified |-> 0]

Image(id, name, model) ==
    [isNil |-> FALSE, id |-> id, name |-> name, model |-> model, modified |-> 0]

\* The document an image is marshalled to.
ToDoc(image) ==
    [id |-> image.id, name |-> image.name, model |-> image.model,
     modified |-> image.modified]

IdleCall ==
    [pc |-> "idle", op |-> "none", id |-> "", image |-> NilImage,
     version |-> "", model |-> "", err |-> Nil, docs |-> {}, t0 |-> 0]

\* ------------------------------------------------------------ collaborators

\* govalidator.IsNull: the string is empty.
IsNull(str) == str = ""

\* SoftwareImage.Validate: the natural key must be non-empty.
Validate(image) ==
    IF IsNull(image.name) \/ IsNull(image.model) THEN ErrValidation ELSE Nil

\* SoftwareImage.SetModified
SetModified(image, t) == [image EXCEPT !.modified = t]

\* Mutant of UniqueNameVersionIndex: the index is not declared unique.
NonUniqueIndex ==
    [name |-> IndexUniqeNameVersionStr,
     key |-> <<StorageKeySoftwareImageName, StorageKeySoftwareImageModel>>,
     unique |-> FALSE, background |-> FALSE]

\* The index IndexStorage asks for.
UniqueNameVersionIndex ==
    [name |-> IndexUniqeNameVersionStr,
     key |-> <<StorageKeySoftwareImageName, StorageKeySoftwareImageModel>>,
     unique |-> TRUE, background |-> FALSE]

\* Value of a document's field named by a storage key.
Field(doc, key) ==
    CASE key = StorageKeySoftwareImageName -> doc.name
      [] key = StorageKeySoftwareImageModel -> doc.model
      [] key = StorageKeySoftwareImageId -> doc.id

SameKey(index, d, e) ==
    \A i \in DOMAIN index.key : Field(d, index.key[i]) = Field(e, index.key[i])

\* Mutant of UniqueIndexViolated: writes are not checked against the index.
UniqueIndexNotEnforced(doc, idx, st) == FALSE

\* Writing doc (in place of the document with the same _id, if any) would break
\* a unique index of the collection.
UniqueIndexViolated(doc, idx, st) ==
    \E index \in idx :
        /\ index.unique
        /\ \E e \in st : e.id # doc.id /\ SameKey(index, doc, e)

\* The collection holds two documents a unique index would not allow.
HasDuplicates(index, st) ==
    \E d \in st : \E e \in st : d # e /\ SameKey(index, d, e)

\* ------------------------------------------------------------------ guards

IndexStorageGuard == Nil

ExistsGuard(id) == IF ~IsNull(id) THEN ErrStorageInvalidID ELSE Nil

UpdateGuard(image) == Validate(image)

FindImageByApplicationAndModelGuard(version, model) ==
    IF ~IsNull(version) THEN ErrStorageInvalidVersion
    ELSE IF ~IsNull(model) THEN ErrStorageInvalidModel
    ELSE Nil

\* Mutant of InsertGuard: the image is not validated.
InsertGuardNoValidate(image) ==
    IF image.isNil THEN ErrStorageInvalidImage ELSE Nil

InsertGuard(image) ==
    IF image.isNil THEN ErrStorageInvalidImage ELSE Validate(image)

FindByIDGuard(id) == IF ~IsNull(id) THEN ErrStorageInvalidID ELSE Nil

DeleteGuard(id) == IF ~IsNull(id) THEN ErrStorageInvalidID ELSE Nil

FindAllGuard == Nil

\* ------------------------------------------------------------------- entry

\* The input guard, then session.Copy(): the guard either rejects the input and
\* the operation returns its error, or the operation copies the session.
Enter(p, c, guard) ==
    IF guard # Nil
    THEN /\ call' = [call EXCEPT ![p] = [c EXCEPT !.pc = "rejected", !.err = guard]]
         /\ open' = open
    ELSE /\ call' = [call EXCEPT ![p] = [c EXCEPT !.pc = "copied"]]
         /\ open' = open + 1

IndexStorage(p) ==
    /\ call[p].pc = "idle"
    /\ Enter(p, [IdleCall EXCEPT !.op = "IndexStorage"], IndexStorageGuard)
    /\ UNCHANGED <<store, indexes, now>>

Exists(p, id) ==
    /\ call[p].pc = "idle"
    /\ Enter(p, [IdleCall EXCEPT !.op = "Exists", !.id = id], ExistsGuard(id))
    /\ UNCHANGED <<store, indexes, now>>

\* t0: the instant the call starts.
Update(p, image) ==
    /\ call[p].pc = "idle"
    /\ Enter(p, [IdleCall EXCEPT !.op = "Update", !.image = image, !.t0 = now],
             UpdateGuard(image))
    /\ UNCHANGED <<store, indexes, now>>

FindImageByApplicationAndModel(p, version, model) ==
    /\ call[p].pc = "idle"
    /\ Enter(p, [IdleCall EXCEPT !.op = "FindImageByApplicationAndModel",
                                 !.version = version, !.model = model],
             FindImageByApplicationAndModelGuard(version, model))
    /\ UNCHANGED <<store, indexes, now>>

Insert(p, image) ==
    /\ call[p].pc = "idle"
    /\ Enter(p, [IdleCall EXCEPT !.op = "Insert", !.image = image], InsertGuard(image))
    /\ UNCHANGED <<store, indexes, now>>

FindByID(p, id) ==
    /\ call[p].pc = "idle"
    /\ Enter(p, [IdleCall EXCEPT !.op = "FindByID", !.id = id], FindByIDGuard(id))
    /\ UNCHANGED <<store, indexes, now>>

Delete(p, id) ==
    /\ call[p].pc = "idle"
    /\ Enter(p, [IdleCall EXCEPT !.op = "Delete", !.id = id], DeleteGuard(id))
    /\ UNCHANGED <<store, indexes, now>>

FindAll(p) ==
    /\ call[p].pc = "idle"
    /\ Enter(p, [IdleCall EXCEPT !.op = "FindAll"], FindAllGuard)
    /\ UNCHANGED <<store, indexes, now>>

\* ---------------------------------------------------------- database calls

\* The operation of caller p has copied its session and issues its database call.
AtCall(p, op) == call[p].pc = "copied" /\ call[p].op = op

Called(p, c) == call' = [call EXCEPT ![p] = [c EXCEPT !.pc = "called"]]

\* EnsureIndex: a no-op when the index exists; building a unique index over
\* documents that collide fails.
DbEnsureIndex(p) ==
    /\ AtCall(p, "IndexStorage")
    /\ \E fail \in BOOLEAN :
        IF fail
        THEN /\ Called(p, [call[p] EXCEPT !.err = ErrInfrastructure])
             /\ indexes' = indexes
        ELSE IF UniqueNameVersionIndex \in indexes
        THEN /\ Called(p, call[p])
             /\ indexes' = indexes
        ELSE IF HasDuplicates(UniqueNameVersionIndex, store)
        THEN /\ Called(p, [call[p] EXCEPT !.err = ErrDuplicateKey])
             /\ indexes' = indexes
        ELSE /\ Called(p, call[p])
             /\ indexes' = indexes \cup {UniqueNameVersionIndex}
    /\ UNCHANGED <<store, open, now>>

\* FindId(id).One(&image), issued by Exists and by FindByID.
DbFindId(p) ==
    /\ AtCall(p, "Exists") \/ AtCall(p, "FindByID")
    /\ \E fail \in BOOLEAN :
        LET found == {d \in store : d.id = call[p].id} IN
        IF fail THEN Called(p, [call[p] EXCEPT !.err = ErrInfrastructure])
        ELSE IF found = {} THEN Called(p, [call[p] EXCEPT !.err = ErrNotFound])
        ELSE Called(p, [call[p] EXCEPT !.docs = found])
    /\ UNCHANGED <<store, indexes, open, now>>

\* Mutant of DbUpdateId: UpsertId in place of UpdateId, which inserts the image
\* when no record has its id.
DbUpdateIdUpsert(p) ==
    /\ AtCall(p, "Update")
    /\ \E fail \in BOOLEAN :
        LET image == SetModified(call[p].image, now)
            c     == [call[p] EXCEPT !.image = image]
            doc   == ToDoc(image)
            old   == {d \in store : d.id = image.id}
        IN
        IF image.id = NilId
        THEN /\ Called(p, [c EXCEPT !.err = Panic])
             /\ store' = store
        ELSE IF fail
        THEN /\ Called(p, [c EXCEPT !.err = ErrInfrastructure])
             /\ store' = store
        ELSE IF UniqueIndexViolated(doc, indexes, store)
        THEN /\ Called(p, [c EXCEPT !.err = ErrDuplicateKey])
             /\ store' = store
        ELSE /\ Called(p, c)
             /\ store' = (store \ old) \cup {doc}
    /\ UNCHANGED <<indexes, open, now>>

\* image.SetModified(time.Now()), then UpdateId(*image.Id, image).
DbUpdateId(p) ==
    /\ AtCall(p, "Update")
    /\ \E fail \in BOOLEAN :
        LET image == SetModified(call[p].image, now)
            c     == [call[p] EXCEPT !.image = image]
            doc   == ToDoc(image)
            old   == {d \in store : d.id = image.id}
        IN
        IF image.id = NilId
        THEN /\ Called(p, [c EXCEPT !.err = Panic])
             /\ store' = store
        ELSE IF fail
        THEN /\ Called(p, [c EXCEPT !.err = ErrInfrastructure])
             /\ store' = store
        ELSE IF old = {}
        THEN /\ Called(p, [c EXCEPT !.err = ErrNotFound])
             /\ store' = store
        ELSE IF UniqueIndexViolated(doc, indexes, store)
        THEN /\ Called(p, [c EXCEPT !.err = ErrDuplicateKey])
             /\ store' = store
        ELSE /\ Called(p, c)
             /\ store' = (store \ old) \cup {doc}
    /\ UNCHANGED <<indexes, open, now>>

\* Find(query).One(&image) with query {model: model, name: version}.
DbFind(p) ==
    /\ AtCall(p, "FindImageByApplicationAndModel")
    /\ \E fail \in BOOLEAN :
        LET found == {d \in store : d.model = call[p].model /\ d.name = call[p].version} IN
        IF fail THEN Called(p, [call[p] EXCEPT !.err = ErrInfrastructure])
        ELSE IF found = {} THEN Called(p, [call[p] EXCEPT !.err = ErrNotFound])
        ELSE \E d \in found : Called(p, [call[p] EXCEPT !.docs = {d}])
    /\ UNCHANGED <<store, indexes, open, now>>

\* Insert(image): rejected when the _id is taken or a unique index is broken.
DbInsert(p) ==
    /\ AtCall(p, "Insert")
    /\ \E fail \in BOOLEAN :
        LET doc == ToDoc(call[p].image) IN
        IF fail
        THEN /\ Called(p, [call[p] EXCEPT !.err = ErrInfrastructure])
             /\ store' = store
        ELSE IF (\E d \in store : d.id = doc.id) \/ UniqueIndexViolated(doc, indexes, store)
        THEN /\ Called(p, [call[p] EXCEPT !.err = ErrDuplicateKey])
             /\ store' = store
        ELSE /\ Called(p, call[p])
             /\ store' = store \cup {doc}
    /\ UNCHANGED <<indexes, open, now>>

\* Mutant of DbRemoveId: RemoveAll with a selector that is not the id.
DbRemoveAll(p) ==
    /\ AtCall(p, "Delete")
    /\ \E fail \in BOOLEAN :
        IF fail
        THEN /\ Called(p, [call[p] EXCEPT !.err = ErrInfrastructure])
             /\ store' = store
        ELSE /\ Called(p, call[p])
             /\ store' = {}
    /\ UNCHANGED <<indexes, open, now>>

\* RemoveId(id)
DbRemoveId(p) ==
    /\ AtCall(p, "Delete")
    /\ \E fail \in BOOLEAN :
        LET old == {d \in store : d.id = call[p].id} IN
        IF fail
        THEN /\ Called(p, [call[p] EXCEPT !.err = ErrInfrastructure])
             /\ store' = store
        ELSE IF old = {}
        THEN /\ Called(p, [call[p] EXCEPT !.err = ErrNotFound])
             /\ store' = store
        ELSE /\ Called(p, call[p])
             /\ store' = store \ old
    /\ UNCHANGED <<indexes, open, now>>

\* Mutant of DbFindAll: the listing takes the records out of the collection.
DbFindAllDrains(p) ==
    /\ AtCall(p, "FindAll")
    /\ \E fail \in BOOLEAN :
        IF fail
        THEN /\ Called(p, [call[p] EXCEPT !.err = ErrInfrastructure])
             /\ store' = store
        ELSE /\ Called(p, [call[p] EXCEPT !.docs = store])
             /\ store' = {}
    /\ UNCHANGED <<indexes, open, now>>

\* Find(nil).All(&images)
DbFindAll(p) ==
    /\ AtCall(p, "FindAll")
    /\ \E fail \in BOOLEAN :
        IF fail THEN Called(p, [call[p] EXCEPT !.err = ErrInfrastructure])
        ELSE Called(p, [call[p] EXCEPT !.docs = store])
    /\ UNCHANGED <<store, indexes, open, now>>

\* ------------------------------------------------------------------ return

\* What an operation returns to its caller: a boolean, the records, the error.
Ret(flag, docs, err) == [flag |-> flag, docs |-> docs, err |-> err]

\* Mutant of IndexStorageReturn: the error of EnsureIndex is dropped.
IndexStorageReturnSwallowed(c) == Ret(FALSE, {}, Nil)

IndexStorageReturn(c) == Ret(FALSE, {}, c.err)

ExistsReturn(c) ==
    IF c.pc = "rejected" THEN Ret(FALSE, {}, c.err)
    ELSE IF c.err = ErrNotFound THEN Ret(FALSE, {}, Nil)
    ELSE IF c.err # Nil THEN Ret(FALSE, {}, c.err)
    ELSE Ret(TRUE, {}, Nil)

\* Mutant of UpdateReturn: the driver's not-found error is not translated.
UpdateReturnUntranslated(c) ==
    IF c.err # Nil THEN Ret(FALSE, {}, c.err) ELSE Ret(TRUE, {}, Nil)

UpdateReturn(c) ==
    IF c.pc = "rejected" THEN Ret(FALSE, {}, c.err)
    ELSE IF c.err = ErrNotFound THEN Ret(FALSE, {}, Nil)
    ELSE IF c.err # Nil THEN Ret(FALSE, {}, c.err)
    ELSE Ret(TRUE, {}, Nil)

FindImageByApplicationAndModelReturn(c) ==
    IF c.pc = "rejected" THEN Ret(FALSE, {}, c.err)
    ELSE IF c.err = ErrNotFound THEN Ret(FALSE, {}, Nil)
    ELSE IF c.err # Nil THEN Ret(FALSE, {}, c.err)
    ELSE Ret(FALSE, c.docs, Nil)

InsertReturn(c) == Ret(FALSE, {}, c.err)

FindByIDReturn(c) ==
    IF c.pc = "rejected" THEN Ret(FALSE, {}, c.err)
    ELSE IF c.err = ErrNotFound THEN Ret(FALSE, {}, Nil)
    ELSE IF c.err # Nil THEN Ret(FALSE, {}, c.err)
    ELSE Ret(FALSE, c.docs, Nil)

\* Mutant of DeleteReturn: every error of RemoveId is taken for not-found.
DeleteReturnSwallowed(c) ==
    IF c.pc = "rejected" THEN Ret(FALSE, {}, c.err) ELSE Ret(FALSE, {}, Nil)

DeleteReturn(c) ==
    IF c.pc = "rejected" THEN Ret(FALSE, {}, c.err)
    ELSE IF c.err = ErrNotFound THEN Ret(FALSE, {}, Nil)
    ELSE IF c.err # Nil THEN Ret(FALSE, {}, c.err)
    ELSE Ret(FALSE, {}, Nil)

FindAllReturn(c) ==
    IF c.err = ErrNotFound THEN Ret(FALSE, c.docs, Nil)
    ELSE IF c.err # Nil THEN Ret(FALSE, {}, c.err)
    ELSE Ret(FALSE, c.docs, Nil)

\* The value the operation in c is about to return.
Result(c) ==
    CASE c.op = "IndexStorage" -> IndexStorageReturn(c)
      [] c.op = "Exists" -> ExistsReturn(c)
      [] c.op = "Update" -> UpdateReturn(c)
      [] c.op = "FindImageByApplicationAndModel" -> FindImageByApplicationAndModelReturn(c)
      [] c.op = "Insert" -> InsertReturn(c)
      [] c.op = "FindByID" -> FindByIDReturn(c)
      [] c.op = "Delete" -> DeleteReturn(c)
      [] c.op = "FindAll" -> FindAllReturn(c)
      [] OTHER -> Ret(FALSE, {}, Nil)

\* Mutant of SessionsClosed: the session is closed on the success path only.
SessionsClosedOnSuccess(c) == IF c.pc = "called" /\ c.err = Nil THEN 1 ELSE 0

\* Session copies the deferred session.Close() of the operation in c closes.
SessionsClosed(c) == IF c.pc = "called" THEN 1 ELSE 0

\* The operation returns: its deferred Close runs and the caller goes on.
Return(p) ==
    /\ call[p].pc \in {"rejected", "called"}
    /\ open' = open - SessionsClosed(call[p])
    /\ call' = [call EXCEPT ![p] = IdleCall]
    /\ UNCHANGED <<store, indexes, now>>

\* The wall clock advances.
Tick ==
    /\ now < MaxTime
    /\ now' = now + 1
    /\ UNCHANGED <<store, indexes, open, call>>

\* ----------------------------------------------------------- specification

\* Images callers hand in: Insert is handed nil or an image whose id is set,
\* Update any image, also one whose Id pointer is nil.
InsertImages ==
    {NilImage} \cup {Image(id, n, m) : id \in Ids, n \in NameArgs, m \in ModelArgs}
UpdateImages ==
    {Image(id, n, m) : id \in Ids \cup {NilId}, n \in NameArgs, m \in ModelArgs}

Init ==
    /\ store = {}
    /\ indexes = {}
    /\ open = 0
    /\ now = 1
    /\ call = [p \in Procs |-> IdleCall]

\* One step of caller p: it enters an operation, or the operation it is in
\* issues its database call or returns.
Operation(p) ==
    \/ IndexStorage(p)
    \/ \E id \in IdArgs : Exists(p, id)
    \/ \E image \in UpdateImages : Update(p, image)
    \/ \E v \in NameArgs : \E m \in ModelArgs : FindImageByApplicationAndModel(p, v, m)
    \/ \E image \in InsertImages : Insert(p, image)
    \/ \E id \in IdArgs : FindByID(p, id)
    \/ \E id \in IdArgs : Delete(p, id)
    \/ FindAll(p)
    \/ DbEnsureIndex(p)
    \/ DbFindId(p)
    \/ DbUpdateId(p)
    \/ DbFind(p)
    \/ DbInsert(p)
    \/ DbRemoveId(p)
    \/ DbFindAll(p)
    \/ Return(p)

\* Concurrent callers, at one instant of the clock.
Next == \E p \in Procs : Operation(p)

Spec == Init /\ [][Next]_vars

\* One caller, while the clock advances.
NextClock == Operation("p1") \/ Tick

SpecClock == Init /\ [][NextClock]_vars

\* ------------------------------------------------------------ properties

Indexed == UniqueNameVersionIndex \in indexes

\* Caller p is about to get the result of operation op.
Returning(p, op) == call[p].op = op /\ call[p].pc \in {"rejected", "called"}

\* This step is the database call of caller p's operation op.
DbStep(p, op) == AtCall(p, op) /\ call'[p].pc = "called"

\* This step is caller p entering operation op.
EnterStep(p, op) == call[p].pc = "idle" /\ call'[p].pc # "idle" /\ call'[p].op = op

SameNaturalKey(d, e) == d.name = e.name /\ d.model = e.model

\* C1: with the unique index in place, when one of two concurrent Insert calls
\* carrying the same (name, model) has been persisted, the database call of the
\* other is rejected: that Insert returns an error and the store is unchanged.
C1_ConcurrentInsertRejected ==
    [][\A p \in Procs : \A q \in Procs \ {p} :
        ( /\ Indexed
          /\ Returning(p, "Insert") /\ InsertReturn(call[p]).err = Nil
          /\ ToDoc(call[p].image) \in store
          /\ DbStep(q, "Insert")
          /\ SameNaturalKey(call[q].image, call[p].image) )
        => /\ InsertReturn(call'[q]).err # Nil
           /\ store' = store]_vars

C1_Witness ==
    \E p \in Procs : \E q \in Procs \ {p} :
        /\ Indexed
        /\ Returning(p, "Insert") /\ InsertReturn(call[p]).err = Nil
        /\ Returning(q, "Insert") /\ InsertReturn(call[q]).err = ErrDuplicateKey
        /\ SameNaturalKey(call[q].image, call[p].image)
        /\ call[q].image.id # call[p].image.id

\* C2: once the unique index exists no two stored records share a (name, model)
\* pair, and an Update that would give a stored record the natural key of another
\* stored record returns an error and leaves the store unchanged.
C2_NaturalKeyUnique ==
    /\ [](Indexed => \A d \in store : \A e \in store : SameNaturalKey(d, e) => d = e)
    /\ [][\A p \in Procs :
            ( /\ Indexed
              /\ DbStep(p, "Update")
              /\ \E d \in store : d.id = call[p].image.id
              /\ \E e \in store : /\ e.id # call[p].image.id
                                  /\ SameNaturalKey(e, call[p].image) )
            => /\ UpdateReturn(call'[p]).err # Nil
               /\ ~UpdateReturn(call'[p]).flag
               /\ store' = store]_vars

C2_Witness ==
    \E p \in Procs :
        /\ Indexed
        /\ Returning(p, "Update") /\ UpdateReturn(call[p]).err = ErrDuplicateKey
        /\ \E d \in store : d.id = call[p].image.id /\ ~SameNaturalKey(d, call[p].image)

\* C3: FindByID with an empty id returns (nil, InvalidID); with a non-empty id
\* it queries the database and returns (nil, nil) when no record has the id and
\* the record, with no error, when one has.
C3_FindByIDContract ==
    \A p \in Procs : Returning(p, "FindByID") =>
        LET c == call[p]
            r == FindByIDReturn(c)
        IN  IF IsNull(c.id)
            THEN c.pc = "rejected" /\ r = Ret(FALSE, {}, ErrStorageInvalidID)
            ELSE /\ c.pc = "called"
                 /\ \/ c.err = ErrInfrastructure
                    \/ c.err = ErrNotFound /\ r = Ret(FALSE, {}, Nil)
                    \/ /\ c.err = Nil
                       /\ r.err = Nil
                       /\ \E d \in r.docs : r.docs = {d} /\ d.id = c.id

\* C4: Delete of a non-empty id is accepted and returns no error, whether or not
\* a record has the id; its database call removes the record with that id, if
\* any, and nothing else.
C4_DeleteIdempotent ==
    /\ [](\A p \in Procs : (Returning(p, "Delete") /\ ~IsNull(call[p].id)) =>
            /\ call[p].pc = "called"
            /\ call[p].err = ErrInfrastructure \/ DeleteReturn(call[p]).err = Nil)
    /\ [][\A p \in Procs :
            (DbStep(p, "Delete") /\ ~IsNull(call[p].id)
                /\ call'[p].err # ErrInfrastructure)
            => store' = {d \in store : d.id # call[p].id}]_vars

\* C5: Insert of nil returns InvalidImage and Insert of an image that fails
\* Validate returns the validation error; neither copies a session, issues a
\* database call or changes the store, and every stored record has a non-empty
\* name and a non-empty model.
C5_ValidationGate ==
    /\ [](\A d \in store : ~IsNull(d.name) /\ ~IsNull(d.model))
    /\ [](\A p \in Procs : (call[p].op = "Insert" /\ call[p].pc # "idle") =>
            /\ call[p].image.isNil =>
                 /\ call[p].pc = "rejected"
                 /\ InsertReturn(call[p]).err = ErrStorageInvalidImage
            /\ (~call[p].image.isNil /\ Validate(call[p].image) # Nil) =>
                 /\ call[p].pc = "rejected"
                 /\ InsertReturn(call[p]).err = Validate(call[p].image)
                 /\ ToDoc(call[p].image) \notin store)
    /\ [][\A p \in Procs :
            (call'[p] # call[p] /\ "rejected" \in {call[p].pc, call'[p].pc})
            => /\ store' = store
               /\ indexes' = indexes
               /\ open' = open]_vars

C5_Witness ==
    \E p \in Procs :
        /\ Returning(p, "Insert")
        /\ InsertReturn(call[p]).err = ErrValidation
        /\ IsNull(call[p].image.name)
        /\ store # {}

\* The unique index forbids writing image in place of the record with its id.
KeyTaken(image) ==
    /\ Indexed
    /\ \E e \in store : e.id # image.id /\ SameNaturalKey(e, image)

\* The records after image replaced the one with its id.
Replaced(image) == {d \in store : d.id # image.id} \cup {ToDoc(image)}

\* C6 as claimed: Update of a valid image with an id returns (true, nil) when a
\* record has the id, replacing the record by the image with a modification
\* time not before the start of the call, and (false, nil) with the store
\* unchanged when none has (the database call itself not failing).
C6_UpdateSemantics ==
    [][\A p \in Procs :
        ( /\ DbStep(p, "Update")
          /\ call[p].image.id # NilId
          /\ call'[p].err # ErrInfrastructure )
        => LET image == call'[p].image
               r == UpdateReturn(call'[p])
           IN  IF \E d \in store : d.id = image.id
               THEN /\ r = Ret(TRUE, {}, Nil)
                    /\ store' = Replaced(image)
                    /\ SameNaturalKey(image, call[p].image) /\ image.id = call[p].image.id
                    /\ image.modified >= call[p].t0
               ELSE /\ r = Ret(FALSE, {}, Nil)
                    /\ store' = store]_vars

\* C6, amended: as claimed when the image's natural key is not held by another
\* record under the unique index; when it is, Update returns the database's
\* duplicate-key error and leaves the store unchanged.
C6_UpdateSemanticsAmended ==
    [][\A p \in Procs :
        ( /\ DbStep(p, "Update")
          /\ call[p].image.id # NilId
          /\ call'[p].err # ErrInfrastructure )
        => LET image == call'[p].image
               r == UpdateReturn(call'[p])
           IN  IF (\E d \in store : d.id = image.id) /\ KeyTaken(image)
               THEN /\ r = Ret(FALSE, {}, ErrDuplicateKey)
                    /\ store' = store
               ELSE IF \E d \in store : d.id = image.id
               THEN /\ r = Ret(TRUE, {}, Nil)
                    /\ store' = Replaced(image)
                    /\ SameNaturalKey(image, call[p].image) /\ image.id = call[p].image.id
                    /\ image.modified >= call[p].t0
               ELSE /\ r = Ret(FALSE, {}, Nil)
                    /\ store' = store]_vars

C6_Witness ==
    /\ Returning("p1", "Update")
    /\ UpdateReturn(call["p1"]) = Ret(TRUE, {}, Nil)
    /\ call["p1"].image.modified > call["p1"].t0
    /\ ToDoc(call["p1"].image) \in store
    /\ Cardinality(store) = 2

\* C7: a successful Insert stores the image field for field, and FindByID with
\* the id of a stored record is accepted and returns that record with no error
\* (the database call itself not failing).
C7_RoundTrip ==
    /\ [][\A p \in Procs :
            (DbStep(p, "Insert") /\ InsertReturn(call'[p]).err = Nil)
            => /\ ToDoc(call[p].image) \in store'
               /\ call'[p].image = call[p].image]_vars
    /\ [][\A p \in Procs :
            (EnterStep(p, "FindByID") /\ \E d \in store : d.id = call'[p].id)
            => call'[p].pc = "copied"]_vars
    /\ [][\A p \in Procs :
            ( /\ DbStep(p, "FindByID")
              /\ call'[p].err # ErrInfrastructure
              /\ \E d \in store : d.id = call[p].id )
            => FindByIDReturn(call'[p])
                   = Ret(FALSE, {d \in store : d.id = call[p].id}, Nil)]_vars

\* C8: FindAll returns the stored records, all of them and no others, and no
\* error, also when there are none; a successful Insert adds one record to the
\* store, and a Delete of the id of a stored record is accepted and takes one
\* record away (the database call itself not failing).
C8_ListCompleteness ==
    /\ [][\A p \in Procs :
            (DbStep(p, "FindAll") /\ call'[p].err # ErrInfrastructure)
            => /\ FindAllReturn(call'[p]) = Ret(FALSE, store, Nil)
               /\ store' = store]_vars
    /\ [][\A p \in Procs :
            (DbStep(p, "Insert") /\ InsertReturn(call'[p]).err = Nil)
            => Cardinality(store') = Cardinality(store) + 1]_vars
    /\ [][\A p \in Procs :
            (EnterStep(p, "Delete") /\ \E d \in store : d.id = call'[p].id)
            => call'[p].pc = "copied"]_vars
    /\ [][\A p \in Procs :
            ( /\ DbStep(p, "Delete")
              /\ call'[p].err # ErrInfrastructure
              /\ \E d \in store : d.id = call[p].id )
            => Cardinality(store') = Cardinality(store) - 1]_vars

InvalidInputErrors ==
    {ErrStorageInvalidID, ErrStorageInvalidVersion, ErrStorageInvalidModel,
     ErrStorageInvalidImage, ErrValidation}

C10_InvalidInputDetection ==
    \A p \in Procs : call[p].pc \in {"rejected", "called"} =>
        LET c == call[p]
            r == Result(c)
        IN  /\ r.err \in InvalidInputErrors => c.pc = "rejected"
            /\ c.op \in {"Exists", "FindByID", "Delete"} =>
                 (r.err = ErrStorageInvalidID <=> IsNull(c.id))
            /\ c.op = "FindImageByApplicationAndModel" =>
                 /\ r.err = ErrStorageInvalidVersion <=> IsNull(c.version)
                 /\ r.err = ErrStorageInvalidModel
                        <=> (~IsNull(c.version) /\ IsNull(c.model))
            /\ c.op = "Insert" =>
                 /\ r.err = ErrStorageInvalidImage <=> c.image.isNil
                 /\ r.err = ErrValidation
                        <=> (~c.image.isNil /\ Validate(c.image) # Nil)

\* C11: Exists with an empty id returns (false, InvalidID); with a non-empty id
\* it queries the database and returns (true, nil) exactly when a record has
\* the id, (false, nil) when none has, and (false, err) when the call fails
\* with another error err.  The query Exists and FindByID share finds a record
\* exactly when one with the id is stored.
C11_ExistsContract ==
    /\ [](\A p \in Procs : Returning(p, "Exists") =>
            LET c == call[p]
                r == ExistsReturn(c)
            IN  IF IsNull(c.id)
                THEN c.pc = "rejected" /\ r = Ret(FALSE, {}, ErrStorageInvalidID)
                ELSE /\ c.pc = "called"
                     /\ r = IF c.err = Nil THEN Ret(TRUE, {}, Nil)
                            ELSE IF c.err = ErrNotFound THEN Ret(FALSE, {}, Nil)
                            ELSE Ret(FALSE, {}, c.err))
    /\ [][\A p \in Procs :
            ( /\ DbStep(p, "Exists") \/ DbStep(p, "FindByID")
              /\ call'[p].err # ErrInfrastructure )
            => LET stored == \E d \in store : d.id = call[p].id
               IN  /\ ExistsReturn(call'[p]).flag <=> stored
                   /\ FindByIDReturn(call'[p]).docs # {} <=> stored]_vars

\* C12: FindImageByApplicationAndModel with an empty version returns
\* InvalidVersion and with an empty model InvalidModel; with both non-empty it
\* queries the database and returns the one stored record whose name is version
\* and whose model is model, or (nil, nil) when there is none (the database
\* call itself not failing).
C12_FindByNaturalKey ==
    /\ [](\A p \in Procs : Returning(p, "FindImageByApplicationAndModel") =>
            LET c == call[p]
                r == FindImageByApplicationAndModelReturn(c)
            IN  /\ IsNull(c.version) => r = Ret(FALSE, {}, ErrStorageInvalidVersion)
                /\ (~IsNull(c.version) /\ IsNull(c.model))
                        => r = Ret(FALSE, {}, ErrStorageInvalidModel)
                /\ (~IsNull(c.version) /\ ~IsNull(c.model)) => c.pc = "called")
    /\ [][\A p \in Procs :
            ( /\ DbStep(p, "FindImageByApplicationAndModel")
              /\ call'[p].err # ErrInfrastructure )
            => LET match == {d \in store : /\ d.name = call[p].version
                                           /\ d.model = call[p].model}
                   r == FindImageByApplicationAndModelReturn(call'[p])
               IN  /\ r.err = Nil
                   /\ r.docs \subseteq match
                   /\ Cardinality(r.docs) = IF match = {} THEN 0 ELSE 1
                   /\ Indexed => r.docs = match]_vars

\* Errors of a database call other than not-found.
DatabaseFailures == {ErrDuplicateKey, ErrInfrastructure}

\* C13: an operation issues its database call once; an error of that call
\* other than not-found is returned to the caller as it is, and not-found is
\* returned as no error by Exists, Update, FindByID,
\* FindImageByApplicationAndModel, Delete and FindAll.
C13_OnlyNotFoundTranslated ==
    /\ [](\A p \in Procs : call[p].pc = "called" =>
            LET c == call[p]
                r == Result(c)
            IN  /\ c.err \in DatabaseFailures => r.err = c.err
                /\ r.err # ErrNotFound
                /\ (c.err = ErrNotFound /\ c.op \in {"Exists", "Update", "FindByID",
                        "FindImageByApplicationAndModel", "Delete", "FindAll"})
                     => r.err = Nil)
    /\ [][\A p \in Procs :
            /\ (call[p].pc = "copied" /\ call'[p] # call[p]) => call'[p].pc = "called"
            /\ (call[p].pc = "called" /\ call'[p] # call[p]) =>
                 /\ call'[p].pc = "idle"
                 /\ store' = store
                 /\ indexes' = indexes]_vars

C13_Witness ==
    \E p \in Procs : \E q \in Procs \ {p} :
        /\ Returning(p, "Insert") /\ call[p].err = ErrDuplicateKey
        /\ InsertReturn(call[p]).err = ErrDuplicateKey
        /\ Returning(q, "Delete") /\ call[q].err = ErrNotFound
        /\ DeleteReturn(call[q]).err = Nil

\* C14: an Update that is rejected by validation, or that returns (false, nil)
\* or an error from its database call, leaves the store and the caller's
\* image, modification timestamp included, as they were; an Update that is
\* persisted stores the timestamp it set on the caller's image.
C14_TimestampOnlyWhenPersisted ==
    /\ [][\A p \in Procs : \A image \in UpdateImages :
            (call[p].pc = "idle" /\ Update(p, image)) =>
                /\ call'[p].image = image
                /\ store' = store]_vars
    /\ [][\A p \in Procs : DbStep(p, "Update") =>
            IF UpdateReturn(call'[p]) = Ret(TRUE, {}, Nil)
            THEN /\ ToDoc(call'[p].image) \in store'
                 /\ call'[p].image = [call[p].image EXCEPT
                                        !.modified = call'[p].image.modified]
            ELSE /\ store' = store
                 /\ call'[p].image = call[p].image]_vars

\* C15: Update of an image that passes validation and has no id returns an
\* error to its caller, neither crashing nor reporting success, and leaves the
\* store unchanged.
C15_UpdateNeedsId ==
    /\ [](\A p \in Procs :
            ( /\ Returning(p, "Update")
              /\ call[p].image.id = NilId
              /\ Validate(call[p].image) = Nil )
            => LET r == UpdateReturn(call[p])
               IN  /\ ~r.flag
                   /\ r.err # Nil
                   /\ r.err # Panic)
    /\ [][\A p \in Procs :
            (DbStep(p, "Update") /\ call[p].image.id = NilId) => store' = store]_vars

\* The ids of the records in st.
StoredIds(st) == {d.id : d \in st}

ReadOperations == {"Exists", "FindByID", "FindImageByApplicationAndModel", "FindAll"}

\* C17: no step of Exists, FindByID, FindImageByApplicationAndModel or FindAll,
\* from its entry to its return and whatever its arguments and its result,
\* changes the stored records or the indexes.
C17_ReadsDoNotMutate ==
    [][\A p \in Procs :
        ( /\ call'[p] # call[p]
          /\ call[p].op \in ReadOperations \/ call'[p].op \in ReadOperations )
        => /\ store' = store
           /\ indexes' = indexes]_vars

C17_Witness ==
    \E p \in Procs :
        /\ Returning(p, "FindAll")
        /\ FindAllReturn(call[p]) = Ret(FALSE, store, Nil)
        /\ Cardinality(store) = 2
        /\ Indexed

\* C18: the collection has no index but the unique, non-background index
\* uniqueNameVersionIndex over (softwareimageconstructor.name,
\* softwareimageconstructor.model); IndexStorage, when its database call does
\* not fail, leaves that index in place; run when the index exists it returns
\* no error and changes neither the indexes nor the stored records; a failure
\* to create the index is returned to the caller and changes nothing.
C18_IndexStorageIdempotent ==
    /\ [](\A index \in indexes :
            /\ index.name = "uniqueNameVersionIndex"
            /\ index.key = <<"softwareimageconstructor.name",
                             "softwareimageconstructor.model">>
            /\ index.unique
            /\ ~index.background)
    /\ [](Cardinality(indexes) <= 1)
    /\ [](\A p \in Procs : (Returning(p, "IndexStorage") /\ call[p].err # Nil)
            => IndexStorageReturn(call[p]).err = call[p].err)
    /\ [][\A p \in Procs : DbStep(p, "IndexStorage") =>
            /\ store' = store
            /\ indexes # {} =>
                 /\ indexes' = indexes
                 /\ call'[p].err # ErrInfrastructure
                        => IndexStorageReturn(call'[p]).err = Nil
            /\ IF IndexStorageReturn(call'[p]).err = Nil
               THEN Cardinality(indexes') = 1
               ELSE indexes' = indexes]_vars

C18_Witness ==
    \E p \in Procs : \E q \in Procs \ {p} :
        /\ Returning(p, "IndexStorage") /\ IndexStorageReturn(call[p]).err = Nil
        /\ Returning(q, "IndexStorage") /\ IndexStorageReturn(call[q]).err = Nil
        /\ Cardinality(indexes) = 1
        /\ store # {}

\* The records of st with another id than id.
Others(st, id) == {d \in st : d.id # id}

C20_VersionBeforeModel ==
    \A p \in Procs : Returning(p, "FindImageByApplicationAndModel") =>
        LET c == call[p]
            r == FindImageByApplicationAndModelReturn(c)
        IN  /\ (IsNull(c.version) /\ IsNull(c.model)) => r.err = ErrStorageInvalidVersion
            /\ r.err = ErrStorageInvalidModel => ~IsNull(c.version)

====
